---- MODULE Spec2Model ----
(***************************************************************************)
(* TickandTie: the export packager (exportToZip), the markdown table       *)
(* extractor (parseMarkdownTable) and the annotation renderer              *)
(* (generateAnnotatedImage) of src/unnamed/part_000, and the               *)
(* reconciliation request (reconcileData) of src/geminiService.ts.         *)
(*                                                                         *)
(* JavaScript strings are modelled as sequences of one-character strings,  *)
(* so that lastIndexOf, substring, trim, split and the template literals   *)
(* of the source are computed and not assumed; so are the regular          *)
(* expression match and JSON.parse of reconcileData.                       *)
(***************************************************************************)
EXTENDS Integers, Sequences, FiniteSets, TLC

VARIABLES
  \* ---- exportToZip ----
  fields,          \* argument: FieldDefinition[]
  documents,       \* argument: DocumentResult[]
  reconcileResult, \* argument: ReconcileResult | null
  pc,              \* position inside exportToZip
  idx,             \* index of the next document of documents.forEach (1-based)
  usedFilenames,   \* Set<string>
  filenameMap,     \* Map<doc.id, uniqueName>
  docsFolder,      \* entries of the zip subfolder: name -> content
  fileCalls,       \* the docsFolder.file(name, content) calls, in call order
  zipRoot,         \* names of the entries at the archive root
  zipCreated,      \* whether new JSZip() has run
  worksheet,       \* the audit sheet: rows and column-0 cells
  workbook,        \* SheetNames of the workbook, in append order
  alerts,          \* alert(...) notices shown, in order
  downloads,       \* a.click() downloads triggered, in order
  \* ---- parseMarkdownTable ----
  markdown,        \* argument
  parsed,          \* [done, isNull, data, from]: the call's result
  \* ---- generateAnnotatedImage ----
  annFile,         \* argument file: [type, width, height]
  annData,         \* argument data: key -> ExtractedValue
  annFields,       \* argument fields
  annPc,           \* position inside generateAnnotatedImage
  annIdx,          \* index of the next field of fields.forEach (1-based)
  canvas,          \* [width, height]
  drawOps,         \* the canvas drawing calls issued, in order
  \* ---- reconcileData ----
  recApiKey,       \* whether process.env.API_KEY is set
  recResponse,     \* what the service answers when the request succeeds: [text, parts]
  recPc,           \* position inside reconcileData
  recRequest,      \* the generateContent request: none, pending, resolved, rejected
  recResult,       \* the ReconcileResult returned: [report, code, joinedData]
  recThrown,       \* the error reconcileData has thrown to its caller
  recLog           \* the console.error calls, in order

exportVars == <<fields, documents, reconcileResult, pc, idx, usedFilenames, filenameMap,
                docsFolder, fileCalls, zipRoot, zipCreated, worksheet, workbook, alerts, downloads>>
parseVars == <<markdown, parsed>>
annotateVars == <<annFile, annData, annFields, annPc, annIdx, canvas, drawOps>>
reconcileVars == <<recApiKey, recResponse, recPc, recRequest, recResult, recThrown, recLog>>
vars == <<exportVars, parseVars, annotateVars, reconcileVars>>

-----------------------------------------------------------------------------
(* Bounds of the model *)

MaxDocs == 3
MaxLines == 4
MaxFields == 2
MaxParts == 2

-----------------------------------------------------------------------------
(* JavaScript string primitives on character sequences *)

Max(S) == CHOOSE x \in S : \A y \in S : y <= x
Min(S) == CHOOSE x \in S : \A y \in S : x <= y

\* String.prototype.lastIndexOf(c): 0-based index of the last c, or -1
LastIndexOf(s, c) ==
  LET hits == {i \in 1..Len(s) : s[i] = c}
  IN IF hits = {} THEN -1 ELSE Max(hits) - 1

\* String.prototype.substring(from, to), 0-based, end exclusive
Substring(s, from, to) == SubSeq(s, from + 1, to)

\* String.prototype.substring(from)
SubstringFrom(s, from) == SubSeq(s, from + 1, Len(s))

Digit(d) == <<"0", "1", "2", "3", "4", "5", "6", "7", "8", "9">>[d + 1]

\* Number -> decimal text, as `${counter}` and JSON.stringify do for integers
RECURSIVE NumToString(_)
NumToString(n) ==
  IF n < 0 THEN <<"-">> \o NumToString(0 - n)
  ELSE IF n < 10 THEN <<Digit(n)>>
  ELSE NumToString(n \div 10) \o <<Digit(n % 10)>>

WhiteSpace == {" ", "\t", "\r", "\n"}

RECURSIVE TrimStart(_)
TrimStart(s) ==
  IF Len(s) > 0 /\ s[1] \in WhiteSpace THEN TrimStart(Tail(s)) ELSE s

RECURSIVE TrimEnd(_)
TrimEnd(s) ==
  IF Len(s) > 0 /\ s[Len(s)] \in WhiteSpace THEN TrimEnd(SubSeq(s, 1, Len(s) - 1)) ELSE s

\* String.prototype.trim()
Trim(s) == TrimEnd(TrimStart(s))

StartsWith(s, c) == Len(s) > 0 /\ s[1] = c
EndsWith(s, c) == Len(s) > 0 /\ s[Len(s)] = c

\* String.prototype.split(sep) for a one-character separator: the pieces between
\* the separators, empty pieces included; always at least one piece
RECURSIVE SplitFrom(_, _, _)
SplitFrom(s, sep, cur) ==
  IF s = <<>> THEN <<cur>>
  ELSE IF Head(s) = sep THEN <<cur>> \o SplitFrom(Tail(s), sep, <<>>)
  ELSE SplitFrom(Tail(s), sep, Append(cur, Head(s)))

Split(s, sep) == SplitFrom(s, sep, <<>>)

\* String.prototype.replace(/c/g, '')
RemoveAll(s, c) == SelectSeq(s, LAMBDA x : x # c)

\* /^-+$/ : one or more dashes and nothing else
MatchesDashes(s) == Len(s) > 0 /\ \A i \in 1..Len(s) : s[i] = "-"

\* Array.prototype.join(sep)
RECURSIVE Join(_, _)
Join(parts, sep) ==
  IF parts = <<>> THEN <<>>
  ELSE IF Len(parts) = 1 THEN parts[1]
  ELSE parts[1] \o sep \o Join(Tail(parts), sep)

UpperCase == <<"A", "B", "C", "D", "E", "F", "G", "H", "I", "J", "K", "L", "M",
               "N", "O", "P", "Q", "R", "S", "T", "U", "V", "W", "X", "Y", "Z">>
LowerCase == <<"a", "b", "c", "d", "e", "f", "g", "h", "i", "j", "k", "l", "m",
               "n", "o", "p", "q", "r", "s", "t", "u", "v", "w", "x", "y", "z">>
Digits == {"0", "1", "2", "3", "4", "5", "6", "7", "8", "9"}

ToLowerChar(c) ==
  IF \E i \in 1..26 : UpperCase[i] = c
  THEN LowerCase[CHOOSE i \in 1..26 : UpperCase[i] = c]
  ELSE c

IsAlnum(c) ==
  \/ \E i \in 1..26 : UpperCase[i] = c \/ LowerCase[i] = c
  \/ c \in Digits

\* name.replace(/[^a-zA-Z0-9]/g, '_').toLowerCase()
sanitizeKey(name) ==
  [i \in 1..Len(name) |-> IF IsAlnum(name[i]) THEN ToLowerChar(name[i]) ELSE "_"]

-----------------------------------------------------------------------------
(* Text constants of the source and of the inputs *)

S_ANNOTATED_JPG == <<"_", "a", "n", "n", "o", "t", "a", "t", "e", "d", ".", "j", "p", "g">>
FOLDER_NAME == <<"a", "n", "n", "o", "t", "a", "t", "e", "d", "_", "d", "o", "c", "u", "m", "e", "n", "t", "s">>
FILE_NAME == <<"F", "i", "l", "e", " ", "N", "a", "m", "e">>
STATUS == <<"S", "t", "a", "t", "u", "s">>
COORDS_SUFFIX == <<" ", "(", "C", "o", "o", "r", "d", "s", ")">>

a_pdf == <<"a", ".", "p", "d", "f">>
a_1_pdf == <<"a", "_", "1", ".", "p", "d", "f">>
a_noext == <<"a">>
a_annotated_jpg == <<"a", "_", "a", "n", "n", "o", "t", "a", "t", "e", "d", ".", "j", "p", "g">>
a_annotated_1_jpg == <<"a", "_", "a", "n", "n", "o", "t", "a", "t", "e", "d", "_", "1", ".", "j", "p", "g">>
a_annotated_2_jpg == <<"a", "_", "a", "n", "n", "o", "t", "a", "t", "e", "d", "_", "2", ".", "j", "p", "g">>
Total == <<"T", "o", "t", "a", "l">>
success == <<"s", "u", "c", "c", "e", "s", "s">>
failure == <<"f", "a", "i", "l", "u", "r", "e">>
v42 == <<"4", "2">>
INV7 == <<"I", "N", "V", "-", "7">>

\* the reconciliation reports given to exportToZip
MD_TABLE == <<"|", " ", "A", " ", "|", " ", "B", " ", "|", "\n", "|", "-", "-", "-", "|", "-", "-", "-", "|", "\n", "|", " ", "1", " ", "|", " ", "2", " ", "|", "\n", "\n", "T", "r", "a", "i", "l", "i", "n", "g", " ", "t", "e", "x", "t">>
MD_NOTABLE == <<"N", "o", " ", "t", "a", "b", "l", "e">>
MD_SEPARATOR_ONLY == <<"|", "-", "-", "-", "|">>
PY_CODE == <<"x", "=", "1">>

\* the name of the audit sheet
AUDIT_SHEET == "Source Data (Tick)"
LIBRARY_NOTICE == "Export libraries are still loading. Please try again in a moment."
FAILURE_NOTICE == "Failed to generate ZIP file."
DOWNLOAD_NAME == "TickAndTie_Audit_Annotated.zip"

\* the tags, the fallback report and the code separator of reconcileData
OPEN_TAG == <<"<", "J", "S", "O", "N", "_", "R", "E", "S", "U", "L", "T", ">">>
CLOSE_TAG == <<"<", "/", "J", "S", "O", "N", "_", "R", "E", "S", "U", "L", "T", ">">>
DEFAULT_REPORT == <<"A", "n", "a", "l", "y", "s", "i", "s", " ", "c", "o", "m", "p", "l", "e", "t", "e", "d", ",", " ", "b", "u", "t", " ", "n", "o", " ", "t", "e", "x", "t", " ", "e", "x", "p", "l", "a", "n", "a", "t", "i", "o", "n", " ", "w", "a", "s", " ", "r", "e", "t", "u", "r", "n", "e", "d", ".">>
CODE_SEPARATOR == <<"\n", "\n", "#", " ", "-", "-", "-", "-", "-", "-", "-", "-", "-", "-", "-", "-", "-", "-", "-", "-", "-", "-", "-", "-", "-", "-", "-", "-", "-", "-", "-", "-", "-", "-", "-", "-", "-", "-", "-", "-", "-", "-", "-", "-", "-", "-", "-", "-", "-", "-", "-", "-", "-", "-", "-", "-", "-", "-", "-", "-", "-", "\n", "#", " ", "N", "e", "x", "t", " ", "C", "o", "d", "e", " ", "B", "l", "o", "c", "k", "\n", "#", " ", "-", "-", "-", "-", "-", "-", "-", "-", "-", "-", "-", "-", "-", "-", "-", "-", "-", "-", "-", "-", "-", "-", "-", "-", "-", "-", "-", "-", "-", "-", "-", "-", "-", "-", "-", "-", "-", "-", "-", "-", "-", "-", "-", "-", "-", "-", "-", "-", "-", "-", "-", "-", "-", "-", "-", "-", "-", "\n", "\n">>

\* block contents, report texts and code blocks of the service responses
J_ROWS == <<"[", "{", "\"", "a", "\"", ":", "1", "}", "]">>
J_EMPTY_ARRAY == <<"[", "]">>
J_PADDED == <<"\n", "[", "1", ",", " ", "2", "]", "\n">>
J_NULL == <<"n", "u", "l", "l">>
J_OBJECT == <<"{", "\"", "k", "\"", ":", "\"", "v", "\"", "}">>
J_TRAILING_COMMA == <<"[", "1", ",", "]">>
J_BARE_KEY == <<"{", "a", ":", "1", "}">>
J_WORD == <<"o", "o", "p", "s">>
J_BLANK == <<" ">>
J_NOTHING == <<>>
J_EXTRA_BRACKET == <<"[", "1", "]", "]">>
J_UNCLOSED == <<"[", "1">>
T_BEFORE == <<"J", "o", "i", "n", "e", "d", ".", "\n">>
T_AFTER == <<"\n", "E", "n", "d">>
T_PLAIN == <<"A", "l", "l", " ", "m", "a", "t", "c", "h", "e", "d", ".">>
CODE_A == <<"a", "=", "1">>
CODE_B == <<"b", "=", "2">>

-----------------------------------------------------------------------------
(* Inputs of exportToZip *)

COLOR_RED == <<"#", "e", "0", "0">>
COLOR_BLUE == <<"#", "0", "0", "e">>

\* a FieldDefinition; the key is the sanitized display name
MkField(name, color) == [key |-> sanitizeKey(name), name |-> name, color |-> color]

TotalField == MkField(Total, COLOR_RED)
FileNameField == MkField(FILE_NAME, COLOR_BLUE)

\* an ExtractedValue {value, box_2d}; value null/undefined is hasValue = FALSE
MkValue(value, box) == [hasValue |-> TRUE, value |-> value, hasBox |-> TRUE, box_2d |-> box]
NullValue == [hasValue |-> FALSE, value |-> <<>>, hasBox |-> FALSE, box_2d |-> <<>>]

EmptyRecord == [x \in {} |-> <<>>]

\* the empty object {} and Record updates obj[k] = v
Put(obj, k, v) == [x \in DOMAIN obj \cup {k} |-> IF x = k THEN v ELSE obj[x]]

DataFull ==
  Put(Put(EmptyRecord, sanitizeKey(Total), MkValue(v42, <<100, 200, 300, 400>>)),
      sanitizeKey(FILE_NAME), MkValue(INV7, <<10, 20, 30, 40>>))
DataNull == Put(EmptyRecord, sanitizeKey(Total), NullValue)
DataNone == EmptyRecord

DocShapes ==
  { [fileName |-> a_pdf, status |-> success, hasAnnotatedBlob |-> TRUE, data |-> DataFull],
    [fileName |-> a_pdf, status |-> failure, hasAnnotatedBlob |-> FALSE, data |-> DataNone],
    [fileName |-> a_annotated_jpg, status |-> failure, hasAnnotatedBlob |-> FALSE, data |-> DataNone],
    [fileName |-> a_noext, status |-> success, hasAnnotatedBlob |-> TRUE, data |-> DataNull],
    [fileName |-> a_1_pdf, status |-> failure, hasAnnotatedBlob |-> FALSE, data |-> DataNone] }

\* document ids up to renaming: every pattern of equal and distinct ids
IdPatterns(n) ==
  {f \in [1..n -> 1..n] :
     \A k \in 1..n : f[k] <= 1 + Max({0} \cup {f[j] : j \in 1..(k - 1)})}

MkDoc(shape, id) ==
  [id |-> id, fileName |-> shape.fileName, status |-> shape.status,
   hasAnnotatedBlob |-> shape.hasAnnotatedBlob, data |-> shape.data]

\* docs is a list of at most MaxDocs documents of these shapes and ids
IsDocList(docs) ==
  \E n \in 0..MaxDocs :
    \E shapes \in [1..n -> DocShapes], ids \in IdPatterns(n) :
      docs = [k \in 1..n |-> MkDoc(shapes[k], ids[k])]

ExportFieldLists == {<<TotalField>>, <<TotalField, FileNameField>>}

NoReconcile == [present |-> FALSE, report |-> <<>>, code |-> <<>>]
ReconcileResults ==
  {NoReconcile} \cup
  {[present |-> TRUE, report |-> r, code |-> PY_CODE] :
     r \in {MD_TABLE, MD_SEPARATOR_ONLY}}

-----------------------------------------------------------------------------
(* parseMarkdownTable *)

\* the separator test without the trim()
IsSeparatorLineNoTrim(line) == MatchesDashes(RemoveAll(line, "|"))

\* /\|/g removed, trimmed, matched against /^-+$/
IsSeparatorLine(line) == MatchesDashes(Trim(RemoveAll(line, "|")))

IsPipeLine(line) == StartsWith(line, "|") /\ EndsWith(line, "|")

\* line.split('|').slice(1, -1).map(c => c.trim())
SplitCells(line) ==
  LET parts == Split(line, "|")
      inner == SubSeq(parts, 2, Len(parts) - 1)
  IN [c \in 1..Len(inner) |-> Trim(inner[c])]

\* the loop without its `break`: a blank line after the table is skipped
RECURSIVE ParseLoopNoBreak(_, _, _, _, _)
ParseLoopNoBreak(lines, k, data, from, tableStarted) ==
  IF k > Len(lines) THEN [data |-> data, from |-> from]
  ELSE LET line == Trim(lines[k])
       IN IF IsPipeLine(line) /\ ~IsSeparatorLine(line)
          THEN ParseLoopNoBreak(lines, k + 1, Append(data, SplitCells(line)),
                                Append(from, k), TRUE)
          ELSE ParseLoopNoBreak(lines, k + 1, data, from, tableStarted)

\* the loop breaking at any line that is not pipe-delimited once the table started
RECURSIVE ParseLoopBreakOnText(_, _, _, _, _)
ParseLoopBreakOnText(lines, k, data, from, tableStarted) ==
  IF k > Len(lines) THEN [data |-> data, from |-> from]
  ELSE LET line == Trim(lines[k])
       IN IF IsPipeLine(line)
          THEN IF IsSeparatorLine(line)
               THEN ParseLoopBreakOnText(lines, k + 1, data, from, tableStarted)
               ELSE ParseLoopBreakOnText(lines, k + 1, Append(data, SplitCells(line)),
                                         Append(from, k), TRUE)
          ELSE IF tableStarted
               THEN [data |-> data, from |-> from]
               ELSE ParseLoopBreakOnText(lines, k + 1, data, from, tableStarted)

\* the for-of loop over the lines, from line k on; `break` ends the recursion.
\* from[r] records the index of the line whose iteration pushed data[r]
RECURSIVE ParseLoop(_, _, _, _, _)
ParseLoop(lines, k, data, from, tableStarted) ==
  IF k > Len(lines) THEN [data |-> data, from |-> from]
  ELSE LET line == Trim(lines[k])
       IN IF IsPipeLine(line)
          THEN IF IsSeparatorLine(line)
               THEN ParseLoop(lines, k + 1, data, from, tableStarted)
               ELSE ParseLoop(lines, k + 1, Append(data, SplitCells(line)),
                              Append(from, k), TRUE)
          ELSE IF tableStarted /\ line = <<>>
               THEN [data |-> data, from |-> from]
               ELSE ParseLoop(lines, k + 1, data, from, tableStarted)

\* the result: isNull stands for the returned null
parseMarkdownTable(md) ==
  LET r == ParseLoop(Split(md, "\n"), 1, <<>>, <<>>, FALSE)
  IN [isNull |-> ~(Len(r.data) > 0), data |-> r.data, from |-> r.from]

-----------------------------------------------------------------------------
(* exportToZip *)

\* the uniqueness test made once instead of repeated: `if` for `while`
UniqueNameOnce(uniqueName, base, ext, counter, used) ==
  IF uniqueName \in used
  THEN base \o <<"_">> \o NumToString(counter) \o ext
  ELSE uniqueName

\* the while loop that makes the name unique
RECURSIVE UniqueNameLoop(_, _, _, _, _)
UniqueNameLoop(uniqueName, base, ext, counter, used) ==
  IF uniqueName \in used
  THEN UniqueNameLoop(base \o <<"_">> \o NumToString(counter) \o ext,
                      base, ext, counter + 1, used)
  ELSE uniqueName

\* the name before deduplication: `${base}_annotated.jpg` or the original name
CandidateName(doc) ==
  IF doc.hasAnnotatedBlob
  THEN LET lastDotIndex == LastIndexOf(doc.fileName, ".")
           base == IF lastDotIndex # -1
                   THEN Substring(doc.fileName, 0, lastDotIndex)
                   ELSE doc.fileName
       IN base \o S_ANNOTATED_JPG
  ELSE doc.fileName

\* the counter started at 0 instead of 1
ResolveNameFromZero(doc, used) ==
  LET name == CandidateName(doc)
      lastDotIndex == LastIndexOf(name, ".")
      base == IF lastDotIndex # -1 THEN Substring(name, 0, lastDotIndex) ELSE name
      ext == IF lastDotIndex # -1 THEN SubstringFrom(name, lastDotIndex) ELSE <<>>
  IN UniqueNameLoop(name, base, ext, 0, used)

\* the uniqueName of one forEach iteration
ResolveName(doc, used) ==
  LET name == CandidateName(doc)
      lastDotIndex == LastIndexOf(name, ".")
      base == IF lastDotIndex # -1 THEN Substring(name, 0, lastDotIndex) ELSE name
      ext == IF lastDotIndex # -1 THEN SubstringFrom(name, lastDotIndex) ELSE <<>>
  IN UniqueNameLoop(name, base, ext, 1, used)

\* the original file stored even when an annotated blob exists
ContentAlwaysFile(k, doc) == [kind |-> "file", doc |-> k]

\* what docsFolder.file stores for document k: its annotated blob or its file
ContentOf(k, doc) ==
  IF doc.hasAnnotatedBlob
  THEN [kind |-> "annotatedBlob", doc |-> k]
  ELSE [kind |-> "file", doc |-> k]

\* JSON.stringify of an array of integers
JsonStringify(box) ==
  <<"[">> \o Join([i \in 1..Len(box) |-> NumToString(box[i])], <<",">>) \o <<"]">>

\* fields.forEach filling one row object, from field k on
RECURSIVE RowFill(_, _, _, _)
RowFill(row, doc, flds, k) ==
  IF k > Len(flds) THEN row
  ELSE LET field == flds[k]
           has == field.key \in DOMAIN doc.data
           extracted == doc.data[field.key]
           valueCell == IF has /\ extracted.hasValue /\ extracted.value # <<>>
                        THEN extracted.value ELSE <<>>
           coordsCell == IF has /\ extracted.hasBox
                         THEN JsonStringify(extracted.box_2d) ELSE <<>>
       IN RowFill(Put(Put(row, field.name, valueCell),
                      field.name \o COORDS_SUFFIX, coordsCell),
                  doc, flds, k + 1)

\* one element of dataRows
DataRow(doc, flds) ==
  RowFill(Put(Put(EmptyRecord, FILE_NAME, doc.fileName), STATUS, doc.status), doc, flds, 1)

Headers(flds) ==
  <<FILE_NAME, STATUS>> \o [k \in 1..Len(flds) |-> flds[k].name]
                        \o [k \in 1..Len(flds) |-> flds[k].name \o COORDS_SUFFIX]

\* the hyperlink loop: the Target of row R's column-0 cell, <<>> when none is set
LinkTarget(doc, map) ==
  IF doc.id \in DOMAIN map /\ map[doc.id] # <<>>
  THEN FOLDER_NAME \o <<"/">> \o map[doc.id]
  ELSE <<>>

\* json_to_sheet(dataRows, {header}) followed by the hyperlink loop; colA[R] is
\* the cell of column 0 in data row R. json_to_sheet puts a row's value for a key
\* in the column of the key's first place among the headers, so column 0 holds
\* the row's value under "File Name"; every row has that key, so the cell exists
\* and the `if (!worksheet[cellRef])` branch is not taken
AuditSheet(docs, flds, map) ==
  LET rows == [R \in 1..Len(docs) |-> DataRow(docs[R], flds)]
  IN [header |-> Headers(flds),
      rows |-> rows,
      colA |-> [R \in 1..Len(docs) |->
                  [v |-> rows[R][Headers(flds)[1]], l |-> LinkTarget(docs[R], map)]]]

NoSheet == [header |-> <<>>, rows |-> <<>>, colA |-> <<>>]

\* the joined-data sheet appended without testing parsedTable for null
ReconcileSheetsAlwaysJoined(rr) ==
  IF rr.present
  THEN <<"Joined Data Details", "Analysis Report", "Python Code">>
  ELSE <<>>

\* the sheets appended when a reconciliation result is supplied
ReconcileSheets(rr) ==
  IF rr.present
  THEN LET parsedTable == parseMarkdownTable(rr.report)
       IN (IF ~parsedTable.isNull THEN <<"Joined Data Details">> ELSE <<>>)
          \o <<"Analysis Report", "Python Code">>
  ELSE <<>>

ExportInit ==
  /\ fields \in ExportFieldLists
  /\ IsDocList(documents)
  /\ reconcileResult \in ReconcileResults
  /\ pc = "start"
  /\ idx = 1
  /\ usedFilenames = {}
  /\ filenameMap = EmptyRecord
  /\ docsFolder = EmptyRecord
  /\ fileCalls = <<>>
  /\ zipRoot = {}
  /\ zipCreated = FALSE
  /\ worksheet = NoSheet
  /\ workbook = <<>>
  /\ alerts = <<>>
  /\ downloads = <<>>

\* if (!window.XLSX || !window.JSZip) { alert(...); return; } else new JSZip(), zip.folder
CheckLibraries ==
  /\ pc = "start"
  /\ \E loaded \in BOOLEAN :
       IF loaded
       THEN /\ pc' = "bundle"
            /\ zipCreated' = TRUE
            /\ alerts' = alerts
       ELSE /\ pc' = "returned"
            /\ zipCreated' = zipCreated
            /\ alerts' = Append(alerts, LIBRARY_NOTICE)
  /\ UNCHANGED <<parseVars, annotateVars, reconcileVars, fields, documents, reconcileResult, idx, usedFilenames, filenameMap,
                 docsFolder, fileCalls, zipRoot, worksheet, workbook, downloads>>

\* one iteration of documents.forEach
BundleDocument ==
  /\ pc = "bundle"
  /\ idx <= Len(documents)
  /\ LET doc == documents[idx]
         uniqueName == ResolveName(doc, usedFilenames)
     IN /\ usedFilenames' = usedFilenames \cup {uniqueName}
        /\ filenameMap' = Put(filenameMap, doc.id, uniqueName)
        /\ docsFolder' = Put(docsFolder, uniqueName, ContentOf(idx, doc))
        /\ fileCalls' = Append(fileCalls, [name |-> uniqueName, content |-> ContentOf(idx, doc)])
  /\ idx' = idx + 1
  /\ UNCHANGED <<parseVars, annotateVars, reconcileVars, fields, documents, reconcileResult, pc, zipRoot, zipCreated, worksheet, workbook,
                 alerts, downloads>>

\* book_new, dataRows, json_to_sheet, the hyperlink loop, book_append_sheet
BuildAuditSheet ==
  /\ pc = "bundle"
  /\ idx > Len(documents)
  /\ worksheet' = AuditSheet(documents, fields, filenameMap)
  /\ workbook' = <<AUDIT_SHEET>>
  /\ pc' = "reconcile"
  /\ UNCHANGED <<parseVars, annotateVars, reconcileVars, fields, documents, reconcileResult, idx, usedFilenames, filenameMap,
                 docsFolder, fileCalls, zipRoot, zipCreated, alerts, downloads>>

\* if (reconcileResult) { ... }, then XLSX.write and zip.file("Audit_Report.xlsx")
AppendReconcileSheets ==
  /\ pc = "reconcile"
  /\ workbook' = workbook \o ReconcileSheets(reconcileResult)
  /\ zipRoot' = zipRoot \cup {"Audit_Report.xlsx"}
  /\ pc' = "generate"
  /\ UNCHANGED <<parseVars, annotateVars, reconcileVars, fields, documents, reconcileResult, idx, usedFilenames, filenameMap,
                 docsFolder, fileCalls, zipCreated, worksheet, alerts, downloads>>

\* variant: the download link is clicked before serialization is awaited, so a
\* failed serialization still triggers a download
GenerateZipClickFirst ==
  /\ pc = "generate"
  /\ downloads' = Append(downloads, DOWNLOAD_NAME)
  /\ \E ok \in BOOLEAN :
       IF ok
       THEN alerts' = alerts
       ELSE alerts' = Append(alerts, FAILURE_NOTICE)
  /\ pc' = "done"
  /\ UNCHANGED <<parseVars, annotateVars, reconcileVars, fields, documents, reconcileResult, idx, usedFilenames, filenameMap,
                 docsFolder, fileCalls, zipRoot, zipCreated, worksheet, workbook>>

\* try { await zip.generateAsync; a.click() } catch { alert }
GenerateZip ==
  /\ pc = "generate"
  /\ \E ok \in BOOLEAN :
       IF ok
       THEN /\ downloads' = Append(downloads, DOWNLOAD_NAME)
            /\ alerts' = alerts
       ELSE /\ downloads' = downloads
            /\ alerts' = Append(alerts, FAILURE_NOTICE)
  /\ pc' = "done"
  /\ UNCHANGED <<parseVars, annotateVars, reconcileVars, fields, documents, reconcileResult, idx, usedFilenames, filenameMap,
                 docsFolder, fileCalls, zipRoot, zipCreated, worksheet, workbook>>

ExportNext ==
  \/ CheckLibraries
  \/ BundleDocument
  \/ BuildAuditSheet
  \/ AppendReconcileSheets
  \/ GenerateZip

-----------------------------------------------------------------------------
(* parseMarkdownTable applied to bounded inputs *)

L_BLANK == <<>>
L_SPACES == <<" ">>
L_SEPARATOR == <<"|", "-", "-", "|", "-", "|">>
L_ROW == <<"|", " ", "1", " ", "|", "2", "|">>
L_TEXT == <<"t", "e", "x", "t">>
L_PIPES_ONLY == <<"|", "|">>
L_SPACED_DASH == <<"|", " ", "-", " ", "|">>
L_SPACED_SEPARATOR == <<"|", "-", " ", "|", " ", "-", "|">>

LineShapes ==
  {L_BLANK, L_SPACES, L_SEPARATOR, L_ROW, L_TEXT, L_PIPES_ONLY,
   L_SPACED_DASH, L_SPACED_SEPARATOR}

\* md is a text of at most MaxLines lines, or one of the reports
IsMarkdown(md) ==
  \/ md \in {MD_TABLE, MD_NOTABLE, MD_SEPARATOR_ONLY}
  \/ \E n \in 1..MaxLines : \E ls \in [1..n -> LineShapes] : md = Join(ls, <<"\n">>)

NotParsed == [done |-> FALSE, isNull |-> TRUE, data |-> <<>>, from |-> <<>>]

ParseInit ==
  /\ IsMarkdown(markdown)
  /\ parsed = NotParsed

ParseIdle ==
  /\ markdown = <<>>
  /\ parsed = NotParsed

\* one call of parseMarkdownTable(markdown)
ParseMarkdown ==
  /\ ~parsed.done
  /\ LET r == parseMarkdownTable(markdown)
     IN parsed' = [done |-> TRUE, isNull |-> r.isNull, data |-> r.data, from |-> r.from]
  /\ UNCHANGED <<markdown, exportVars, annotateVars, reconcileVars>>

-----------------------------------------------------------------------------
(* generateAnnotatedImage *)

ExportIdle ==
  /\ fields = <<>>
  /\ documents = <<>>
  /\ reconcileResult = NoReconcile
  /\ pc = "idle"
  /\ idx = 1
  /\ usedFilenames = {}
  /\ filenameMap = EmptyRecord
  /\ docsFolder = EmptyRecord
  /\ fileCalls = <<>>
  /\ zipRoot = {}
  /\ zipCreated = FALSE
  /\ worksheet = NoSheet
  /\ workbook = <<>>
  /\ alerts = <<>>
  /\ downloads = <<>>

\* boxes are [ymin, xmin, ymax, xmax] on the 0..1000 scale
ValidBox == <<100, 200, 300, 400>>
InvertedBox == <<300, 200, 100, 400>>
ZeroAreaBox == <<100, 200, 100, 400>>
OutOfRangeBox == <<100, 200, 300, 1200>>

AnnValues ==
  { MkValue(v42, ValidBox),
    MkValue(v42, InvertedBox),
    MkValue(v42, ZeroAreaBox),
    MkValue(v42, OutOfRangeBox),
    [hasValue |-> TRUE, value |-> v42, hasBox |-> FALSE, box_2d |-> <<>>],
    [hasValue |-> FALSE, value |-> <<>>, hasBox |-> TRUE, box_2d |-> ValidBox],
    NullValue }

\* data: the key of Total is missing or holds any of AnnValues; the key of
\* File Name is missing or holds a value with a box
AnnDatas ==
  {t @@ f :
     t \in {EmptyRecord} \cup {Put(EmptyRecord, sanitizeKey(Total), v) : v \in AnnValues},
     f \in {EmptyRecord, Put(EmptyRecord, sanitizeKey(FILE_NAME), MkValue(INV7, <<10, 20, 30, 40>>))}}

AnnFieldLists == UNION {[1..n -> {TotalField, FileNameField}] : n \in 0..MaxFields}

\* width and height are the image's natural size, or the PDF page's size at scale 1
AnnFiles ==
  { [type |-> "image/png", width |-> 1000, height |-> 800],
    [type |-> "application/pdf", width |-> 600, height |-> 400],
    [type |-> "text/plain", width |-> 0, height |-> 0] }

\* ctx.measureText(text).width, in thousandths of a pixel
TextWidths == {30000, 90000}

IsImageType(type) == type \in {"image/png", "image/jpeg"}

NoCanvas == [width |-> 0, height |-> 0]

\* fileToCanvas(file, 2.0): images at natural size, PDFs at twice the page size
CanvasOf(file) ==
  IF IsImageType(file.type)
  THEN [width |-> file.width, height |-> file.height]
  ELSE [width |-> 2 * file.width, height |-> 2 * file.height]

MaxOf(a, b) == IF a >= b THEN a ELSE b

\* does the forEach body draw for this field: if (extracted && extracted.box_2d)
DrawsField(data, field) ==
  /\ field.key \in DOMAIN data
  /\ data[field.key].hasBox

\* the four canvas calls of one field; lengths are in thousandths of a pixel,
\* so (xmin / 1000) * canvas.width is xmin * canvas.width
FieldOps(k, field, box, cv, measured) ==
  LET ymin == box[1]
      xmin == box[2]
      ymax == box[3]
      xmax == box[4]
      x == xmin * cv.width
      y == ymin * cv.height
      w == (xmax - xmin) * cv.width
      h == (ymax - ymin) * cv.height
      lineWidth == MaxOf(2000, cv.width * 3)
      fontSize == MaxOf(12000, cv.width * 15)
      padding == 4000
      textW == measured + padding * 2
      textH == fontSize + padding * 2
      labelY == IF y - textH > 0 THEN y - textH ELSE y
  IN << [op |-> "strokeRect", field |-> k, style |-> field.color, text |-> <<>>,
         x |-> x, y |-> y, w |-> w, h |-> h, size |-> lineWidth],
        [op |-> "fillRect", field |-> k, style |-> field.color \o <<"2", "0">>, text |-> <<>>,
         x |-> x, y |-> y, w |-> w, h |-> h, size |-> 0],
        [op |-> "fillRect", field |-> k, style |-> field.color, text |-> <<>>,
         x |-> x, y |-> labelY, w |-> textW, h |-> textH, size |-> 0],
        [op |-> "fillText", field |-> k, style |-> <<"w", "h", "i", "t", "e">>, text |-> field.name,
         x |-> x + padding, y |-> labelY + padding, w |-> 0, h |-> 0, size |-> fontSize] >>

AnnotateInit ==
  /\ annFile \in AnnFiles
  /\ annData \in AnnDatas
  /\ annFields \in AnnFieldLists
  /\ annPc = "start"
  /\ annIdx = 1
  /\ canvas = NoCanvas
  /\ drawOps = <<>>

AnnotateIdle ==
  /\ annFile = [type |-> "text/plain", width |-> 0, height |-> 0]
  /\ annData = EmptyRecord
  /\ annFields = <<>>
  /\ annPc = "idle"
  /\ annIdx = 1
  /\ canvas = NoCanvas
  /\ drawOps = <<>>

\* await fileToCanvas(file, 2.0) and canvas.getContext('2d'): an unsupported type
\* throws; decoding, rendering or the context may fail for a supported one
LoadCanvas ==
  /\ annPc = "start"
  /\ IF IsImageType(annFile.type) \/ annFile.type = "application/pdf"
     THEN \E ok \in BOOLEAN :
            IF ok
            THEN /\ canvas' = CanvasOf(annFile)
                 /\ annPc' = "draw"
            ELSE /\ canvas' = canvas
                 /\ annPc' = "rejected"
     ELSE /\ canvas' = canvas
          /\ annPc' = "rejected"
  /\ UNCHANGED <<annFile, annData, annFields, annIdx, drawOps, exportVars, parseVars, reconcileVars>>

\* one iteration of fields.forEach
DrawField ==
  /\ annPc = "draw"
  /\ annIdx <= Len(annFields)
  /\ LET field == annFields[annIdx]
     IN IF DrawsField(annData, field)
        THEN \E measured \in TextWidths :
               drawOps' = drawOps \o FieldOps(annIdx, field, annData[field.key].box_2d,
                                              canvas, measured)
        ELSE drawOps' = drawOps
  /\ annIdx' = annIdx + 1
  /\ UNCHANGED <<annFile, annData, annFields, annPc, canvas, exportVars, parseVars, reconcileVars>>

\* canvas.toBlob(..., 'image/jpeg', 0.85): resolve with the blob, or reject
FinishImage ==
  /\ annPc = "draw"
  /\ annIdx > Len(annFields)
  /\ \E blob \in BOOLEAN : annPc' = IF blob THEN "resolved" ELSE "rejected"
  /\ UNCHANGED <<annFile, annData, annFields, annIdx, canvas, drawOps, exportVars, parseVars, reconcileVars>>

AnnotateNext ==
  \/ LoadCanvas
  \/ DrawField
  \/ FinishImage

-----------------------------------------------------------------------------
(* reconcileData of src/geminiService.ts *)

\* String.prototype.indexOf(pattern, from), 1-based; 0 when there is none
IndexOfFrom(s, pattern, from) ==
  LET hits == {i \in from..(Len(s) - Len(pattern) + 1) : SubSeq(s, i, i + Len(pattern) - 1) = pattern}
  IN IF hits = {} THEN 0 ELSE Min(hits)

NoMatch == [matched |-> FALSE, group |-> <<>>]

\* report.match(/<JSON_RESULT>([\s\S]*?)<\/JSON_RESULT>/): the match at the
\* lowest start, with the shortest group: the first opening tag after which a
\* closing tag follows, up to the first such closing tag
MatchJsonResult(report) ==
  LET open == IndexOfFrom(report, OPEN_TAG, 1)
      close == IF open = 0 THEN 0 ELSE IndexOfFrom(report, CLOSE_TAG, open + Len(OPEN_TAG))
  IN IF open = 0 \/ close = 0 THEN NoMatch
     ELSE [matched |-> TRUE, group |-> SubSeq(report, open + Len(OPEN_TAG), close - 1)]

\* JSON.parse. A parsed value is [t, v]: t is "null", "bool", "number",
\* "string", "array" or "object". The texts drawn in ReconcileInit hold integers
\* without fraction or exponent and strings without \b, \f and \u escapes.
JSON_WS == {" ", "\t", "\n", "\r"}

RECURSIVE SkipWs(_, _)
SkipWs(s, i) == IF i <= Len(s) /\ s[i] \in JSON_WS THEN SkipWs(s, i + 1) ELSE i

SyntaxError == [ok |-> FALSE, value |-> [t |-> "null", v |-> 0], next |-> 0]
Parsed(t, v, next) == [ok |-> TRUE, value |-> [t |-> t, v |-> v], next |-> next]

DigitValue(c) == CHOOSE d \in 0..9 : Digit(d) = c

RECURSIVE ParseDigits(_, _, _)
ParseDigits(s, i, acc) ==
  IF i <= Len(s) /\ s[i] \in Digits THEN ParseDigits(s, i + 1, acc * 10 + DigitValue(s[i]))
  ELSE [value |-> acc, next |-> i]

\* -? ( 0 | [1-9][0-9]* )
ParseNumber(s, i) ==
  LET negative == s[i] = "-"
      first == IF negative THEN i + 1 ELSE i
  IN IF first > Len(s) \/ s[first] \notin Digits THEN SyntaxError
     ELSE IF s[first] = "0" THEN Parsed("number", 0, first + 1)
     ELSE LET digits == ParseDigits(s, first, 0)
          IN Parsed("number", IF negative THEN 0 - digits.value ELSE digits.value, digits.next)

Escapes == [c \in {"\"", "\\", "/", "n", "t", "r"} |->
              CASE c = "n" -> "\n" [] c = "t" -> "\t" [] c = "r" -> "\r" [] OTHER -> c]

\* the characters after an opening quote, up to the closing quote
RECURSIVE ParseString(_, _, _)
ParseString(s, i, acc) ==
  IF i > Len(s) THEN SyntaxError
  ELSE IF s[i] = "\"" THEN Parsed("string", acc, i + 1)
  ELSE IF s[i] \in {"\n", "\t", "\r"} THEN SyntaxError
  ELSE IF s[i] = "\\"
       THEN IF i + 1 <= Len(s) /\ s[i + 1] \in DOMAIN Escapes
            THEN ParseString(s, i + 2, Append(acc, Escapes[s[i + 1]]))
            ELSE SyntaxError
  ELSE ParseString(s, i + 1, Append(acc, s[i]))

ParseLiteral(s, i, word, t, v) ==
  IF i + Len(word) - 1 <= Len(s) /\ SubSeq(s, i, i + Len(word) - 1) = word
  THEN Parsed(t, v, i + Len(word))
  ELSE SyntaxError

RECURSIVE ParseValue(_, _)
RECURSIVE ParseElements(_, _, _)
RECURSIVE ParseMembers(_, _, _)

\* the elements of an array from position i, the first of an element
ParseElements(s, i, acc) ==
  LET element == ParseValue(s, i)
      after == SkipWs(s, element.next)
  IN IF ~element.ok \/ after > Len(s) THEN SyntaxError
     ELSE IF s[after] = "," THEN ParseElements(s, after + 1, Append(acc, element.value))
     ELSE IF s[after] = "]" THEN Parsed("array", Append(acc, element.value), after + 1)
     ELSE SyntaxError

\* the members of an object from position i, the first of a member
ParseMembers(s, i, acc) ==
  LET quote == SkipWs(s, i)
      key == IF quote <= Len(s) /\ s[quote] = "\"" THEN ParseString(s, quote + 1, <<>>) ELSE SyntaxError
      colon == SkipWs(s, key.next)
      member == IF key.ok /\ colon <= Len(s) /\ s[colon] = ":" THEN ParseValue(s, colon + 1) ELSE SyntaxError
      after == SkipWs(s, member.next)
  IN IF ~member.ok \/ after > Len(s) THEN SyntaxError
     ELSE IF s[after] = "," THEN ParseMembers(s, after + 1, Put(acc, key.value.v, member.value))
     ELSE IF s[after] = "}" THEN Parsed("object", Put(acc, key.value.v, member.value), after + 1)
     ELSE SyntaxError

ParseValue(s, i) ==
  LET start == SkipWs(s, i)
  IN IF start > Len(s) THEN SyntaxError
     ELSE LET c == s[start]
              inside == SkipWs(s, start + 1)
          IN CASE c = "[" ->
                    IF inside <= Len(s) /\ s[inside] = "]" THEN Parsed("array", <<>>, inside + 1)
                    ELSE ParseElements(s, start + 1, <<>>)
               [] c = "{" ->
                    IF inside <= Len(s) /\ s[inside] = "}" THEN Parsed("object", EmptyRecord, inside + 1)
                    ELSE ParseMembers(s, start + 1, EmptyRecord)
               [] c = "\"" -> ParseString(s, start + 1, <<>>)
               [] c = "-" \/ c \in Digits -> ParseNumber(s, start)
               [] c = "n" -> ParseLiteral(s, start, <<"n", "u", "l", "l">>, "null", 0)
               [] c = "t" -> ParseLiteral(s, start, <<"t", "r", "u", "e">>, "bool", TRUE)
               [] c = "f" -> ParseLiteral(s, start, <<"f", "a", "l", "s", "e">>, "bool", FALSE)
               [] OTHER -> SyntaxError

\* JSON.parse(text): one value, whitespace around it, nothing else
JSONparse(text) ==
  LET top == ParseValue(text, 1)
  IN IF top.ok /\ SkipWs(text, top.next) = Len(text) + 1
     THEN [ok |-> TRUE, value |-> top.value]
     ELSE [ok |-> FALSE, value |-> SyntaxError.value]

\* parts.filter(part => part.executableCode).map(part => part.executableCode.code)
RECURSIVE CodeBlocks(_)
CodeBlocks(parts) ==
  IF parts = <<>> THEN <<>>
  ELSE (IF parts[1].hasCode THEN <<parts[1].code>> ELSE <<>>) \o CodeBlocks(Tail(parts))

Undefined == [present |-> FALSE, value |-> SyntaxError.value]

\* lines 151-159: joinedData and whether the inner catch logged a parse failure
JoinedData(report) ==
  LET jsonMatch == MatchJsonResult(report)
  IN IF jsonMatch.matched /\ jsonMatch.group # <<>>
     THEN LET json == JSONparse(jsonMatch.group)
          IN IF json.ok
             THEN [joinedData |-> [present |-> TRUE, value |-> json.value], failed |-> FALSE]
             ELSE [joinedData |-> Undefined, failed |-> TRUE]
     ELSE [joinedData |-> Undefined, failed |-> FALSE]

\* lines 140-161: the result built from a response
ResultOf(response) ==
  LET report == IF response.text # <<>> THEN response.text ELSE DEFAULT_REPORT
      code == Join(CodeBlocks(response.parts), CODE_SEPARATOR)
  IN [report |-> report, code |-> code, joinedData |-> JoinedData(report).joinedData]

NoResult == [report |-> <<>>, code |-> <<>>, joinedData |-> Undefined]

API_KEY_MISSING == "API Key is missing"
RECONCILIATION_ERROR == "Reconciliation Error:"
PARSE_FAILURE == "Failed to parse joined data JSON from model response"
\* the error the rejected request carries
SERVICE_ERROR == "service error"
\* the SyntaxError of JSON.parse
SYNTAX_ERROR == "SyntaxError"
NothingThrown == "none"

\* a response part: text or executableCode
TextPart == [hasCode |-> FALSE, code |-> <<>>]
CodePart(code) == [hasCode |-> TRUE, code |-> code]
PartShapes == {TextPart, CodePart(CODE_A), CodePart(CODE_B)}

JsonTexts ==
  {J_ROWS, J_EMPTY_ARRAY, J_PADDED, J_NULL, J_OBJECT,
   J_TRAILING_COMMA, J_BARE_KEY, J_WORD, J_BLANK, J_NOTHING, J_EXTRA_BRACKET, J_UNCLOSED}

Block(content) == OPEN_TAG \o content \o CLOSE_TAG

\* response.text: absent, without tags, with an unclosed or unopened tag, with
\* one block, with two blocks, with an opening tag inside the block
ResponseTexts ==
  {<<>>, T_PLAIN, T_BEFORE \o OPEN_TAG \o J_ROWS, T_BEFORE \o J_ROWS \o CLOSE_TAG}
  \cup {T_BEFORE \o Block(content) \o T_AFTER : content \in JsonTexts}
  \cup {Block(J_TRAILING_COMMA) \o Block(J_ROWS), Block(J_ROWS) \o Block(J_WORD),
        OPEN_TAG \o Block(J_ROWS)}

ReconcileInit ==
  /\ recApiKey \in BOOLEAN
  /\ \E n \in 0..MaxParts : \E parts \in [1..n -> PartShapes] :
       \E text \in ResponseTexts : recResponse = [text |-> text, parts |-> parts]
  /\ recPc = "start"
  /\ recRequest = "none"
  /\ recResult = NoResult
  /\ recThrown = NothingThrown
  /\ recLog = <<>>

ReconcileIdle ==
  /\ recApiKey = FALSE
  /\ recResponse = [text |-> <<>>, parts |-> <<>>]
  /\ recPc = "idle"
  /\ recRequest = "none"
  /\ recResult = NoResult
  /\ recThrown = NothingThrown
  /\ recLog = <<>>

\* lines 83-132: the API key test, the prompt, the request sent
SendRequest ==
  /\ recPc = "start"
  /\ IF recApiKey
     THEN /\ recRequest' = "pending"
          /\ recPc' = "awaiting"
          /\ recThrown' = recThrown
     ELSE /\ recRequest' = recRequest
          /\ recPc' = "thrown"
          /\ recThrown' = API_KEY_MISSING
  /\ UNCHANGED <<recApiKey, recResponse, recResult, recLog, exportVars, parseVars, annotateVars>>

\* variant: JSON.parse outside an inner try, so that its SyntaxError reaches the
\* outer catch and is rethrown
ReceiveResponseParseUnguarded ==
  /\ recPc = "awaiting"
  /\ \E resolved \in BOOLEAN :
       IF resolved /\ ~JoinedData(ResultOf(recResponse).report).failed
       THEN /\ recRequest' = "resolved"
            /\ recResult' = ResultOf(recResponse)
            /\ recLog' = recLog
            /\ recPc' = "returned"
            /\ recThrown' = recThrown
       ELSE /\ recRequest' = IF resolved THEN "resolved" ELSE "rejected"
            /\ recResult' = recResult
            /\ recLog' = Append(recLog, RECONCILIATION_ERROR)
            /\ recPc' = "thrown"
            /\ recThrown' = IF resolved THEN SYNTAX_ERROR ELSE SERVICE_ERROR
  /\ UNCHANGED <<recApiKey, recResponse, exportVars, parseVars, annotateVars>>

\* lines 132-166: the awaited request resolves or rejects; the result is built
\* and returned, or the error is logged and rethrown
ReceiveResponse ==
  /\ recPc = "awaiting"
  /\ \E resolved \in BOOLEAN :
       IF resolved
       THEN /\ recRequest' = "resolved"
            /\ recResult' = ResultOf(recResponse)
            /\ recLog' = IF JoinedData(ResultOf(recResponse).report).failed
                         THEN Append(recLog, PARSE_FAILURE) ELSE recLog
            /\ recPc' = "returned"
            /\ recThrown' = recThrown
       ELSE /\ recRequest' = "rejected"
            /\ recResult' = recResult
            /\ recLog' = Append(recLog, RECONCILIATION_ERROR)
            /\ recPc' = "thrown"
            /\ recThrown' = SERVICE_ERROR
  /\ UNCHANGED <<recApiKey, recResponse, exportVars, parseVars, annotateVars>>

ReconcileNext ==
  \/ SendRequest
  \/ ReceiveResponse

-----------------------------------------------------------------------------
(* Specifications *)

\* one call of exportToZip
Init == ExportInit /\ ParseIdle /\ AnnotateIdle /\ ReconcileIdle
Next == ExportNext
Spec == Init /\ [][Next]_vars

\* one call of parseMarkdownTable
InitParse == ParseInit /\ ExportIdle /\ AnnotateIdle /\ ReconcileIdle
NextParse == ParseMarkdown
SpecParse == InitParse /\ [][NextParse]_vars

\* one call of generateAnnotatedImage
InitAnnotate == AnnotateInit /\ ExportIdle /\ ParseIdle /\ ReconcileIdle
NextAnnotate == AnnotateNext
SpecAnnotate == InitAnnotate /\ [][NextAnnotate]_vars

\* one call of reconcileData
InitReconcile == ReconcileInit /\ ExportIdle /\ ParseIdle /\ AnnotateIdle
NextReconcile == ReconcileNext
SpecReconcile == InitReconcile /\ [][NextReconcile]_vars

-----------------------------------------------------------------------------
(* Properties of exportToZip, under Spec *)

\* the resolved filename of each document processed so far, in document order
ResolvedNames == [k \in 1..Len(fileCalls) |-> fileCalls[k].name]

BundlingDone == pc \in {"reconcile", "generate", "done"}

DistinctIds ==
  \A i, j \in 1..Len(documents) : i # j => documents[i].id # documents[j].id

\* C1: after each document is processed, the resolved export filenames of the
\* documents processed so far are pairwise distinct, so no file added to the
\* archive subfolder overwrites another.
C1_ResolvedNamesDistinct ==
  /\ \A i, j \in 1..Len(fileCalls) : i # j => fileCalls[i].name # fileCalls[j].name
  /\ Cardinality(DOMAIN docsFolder) = Len(fileCalls)
  /\ usedFilenames = DOMAIN docsFolder

a_1_1_pdf == <<"a", "_", "1", "_", "1", ".", "p", "d", "f">>

\* two unannotated a.pdf and a document already named a_1.pdf have been bundled,
\* and the third had to take a_1_1.pdf
C1_Witness ==
  /\ Len(fileCalls) = 3
  /\ \A k \in 1..3 : ~documents[k].hasAnnotatedBlob
  /\ documents[1].fileName = a_pdf
  /\ documents[2].fileName = a_pdf
  /\ documents[3].fileName = a_1_pdf
  /\ ResolvedNames = <<a_pdf, a_1_pdf, a_1_1_pdf>>

WithoutLastExtension(name) ==
  LET dots == {i \in 1..Len(name) : name[i] = "."}
  IN IF dots = {} THEN name ELSE SubSeq(name, 1, Max(dots) - 1)

LastExtension(name) ==
  LET dots == {i \in 1..Len(name) : name[i] = "."}
  IN IF dots = {} THEN <<>> ELSE SubSeq(name, Max(dots), Len(name))

\* '<original name without its last extension>_annotated.jpg', or the original name
ExpectedCandidate(doc) ==
  IF doc.hasAnnotatedBlob
  THEN WithoutLastExtension(doc.fileName) \o S_ANNOTATED_JPG
  ELSE doc.fileName

\* '<base>_<n><ext>'
Suffixed(cand, n) ==
  WithoutLastExtension(cand) \o <<"_">> \o NumToString(n) \o LastExtension(cand)

ThreeAnnotatedAPdf ==
  /\ Len(documents) = 3
  /\ \A k \in 1..3 : documents[k].fileName = a_pdf /\ documents[k].hasAnnotatedBlob

\* C2: documents are resolved in list order; an unused candidate name is kept,
\* a used one becomes '<base>_<n><ext>' for the smallest n >= 1 not yet used;
\* three annotated documents named a.pdf resolve to a_annotated.jpg,
\* a_annotated_1.jpg, a_annotated_2.jpg in that order.
C2_SmallestFreeSuffix ==
  /\ \A k \in 1..Len(fileCalls) :
       LET cand == ExpectedCandidate(documents[k])
           usedBefore == {fileCalls[j].name : j \in 1..(k - 1)}
       IN IF cand \notin usedBefore
          THEN fileCalls[k].name = cand
          ELSE \E n \in 1..k :
                 /\ fileCalls[k].name = Suffixed(cand, n)
                 /\ Suffixed(cand, n) \notin usedBefore
                 /\ \A m \in 1..(n - 1) : Suffixed(cand, m) \in usedBefore
  /\ (ThreeAnnotatedAPdf /\ Len(fileCalls) = 3) =>
       ResolvedNames = <<a_annotated_jpg, a_annotated_1_jpg, a_annotated_2_jpg>>

\* the three annotated a.pdf have all been resolved
C2_Witness ==
  /\ ThreeAnnotatedAPdf
  /\ ResolvedNames = <<a_annotated_jpg, a_annotated_1_jpg, a_annotated_2_jpg>>

\* the audit sheet has one row per document and every hyperlink of column 0
\* targets the archive entry of that row's document (or, for equal ids, of the
\* last document with that id)
AuditLinksResolved ==
  BundlingDone =>
    /\ Len(worksheet.rows) = Len(documents)
    /\ Len(worksheet.colA) = Len(documents)
    /\ \A R \in 1..Len(documents) :
         /\ DistinctIds => worksheet.colA[R].l = FOLDER_NAME \o <<"/">> \o fileCalls[R].name
         /\ \E name \in DOMAIN docsFolder : worksheet.colA[R].l = FOLDER_NAME \o <<"/">> \o name

\* C3: the audit sheet has exactly one data row per document, in document
\* order; for documents with distinct ids the file-name cell of row i displays
\* document i's original file name and links to
\* 'annotated_documents/<resolved filename>' of that same document; no
\* hyperlink points at a name that is not an entry of the archive subfolder.
C3_AuditRowsShowOriginalNames ==
  /\ AuditLinksResolved
  /\ (BundlingDone /\ DistinctIds) =>
       \A R \in 1..Len(documents) : worksheet.colA[R].v = documents[R].fileName

\* C4: exactly one entry per document is added to the archive subfolder, the
\* annotated image when the document has one and its original file otherwise,
\* under the document's resolved filename; n documents give n entries.
C4_OneEntryPerDocument ==
  /\ \A k \in 1..Len(fileCalls) :
       LET doc == documents[k]
           want == [kind |-> IF doc.hasAnnotatedBlob THEN "annotatedBlob" ELSE "file",
                    doc |-> k]
       IN /\ fileCalls[k].content = want
          /\ fileCalls[k].name \in DOMAIN docsFolder
          /\ docsFolder[fileCalls[k].name] = want
          /\ DistinctIds => filenameMap[doc.id] = fileCalls[k].name
  /\ pc = "bundle" => Len(fileCalls) = idx - 1
  /\ BundlingDone =>
       /\ Len(fileCalls) = Len(documents)
       /\ Cardinality(DOMAIN docsFolder) = Len(documents)

\* two annotated documents and one failed document are bundled: two annotated
\* images and one original file
C4_Witness ==
  /\ BundlingDone
  /\ Len(documents) = 3
  /\ Cardinality({k \in 1..3 : documents[k].status = failure}) = 1
  /\ Cardinality({n \in DOMAIN docsFolder : docsFolder[n].kind = "annotatedBlob"}) = 2
  /\ Cardinality({n \in DOMAIN docsFolder : docsFolder[n].kind = "file"}) = 1

\* C10: the workbook starts with the audit sheet; without a reconciliation
\* result that is its only sheet; with one, the report and code sheets follow in
\* every case, preceded by the joined-data sheet exactly when parseMarkdownTable
\* finds a table in the report.
C10_SheetOrder ==
  /\ workbook # <<>> => workbook[1] = AUDIT_SHEET
  /\ pc = "reconcile" => workbook = <<AUDIT_SHEET>>
  /\ pc \in {"generate", "done"} =>
       IF ~reconcileResult.present
       THEN workbook = <<AUDIT_SHEET>>
       ELSE IF parseMarkdownTable(reconcileResult.report).isNull
            THEN workbook = <<AUDIT_SHEET, "Analysis Report", "Python Code">>
            ELSE workbook = <<AUDIT_SHEET, "Joined Data Details", "Analysis Report",
                              "Python Code">>

\* a report holding a table has given all four sheets
C10_Witness ==
  /\ pc = "done"
  /\ reconcileResult.present
  /\ reconcileResult.report = MD_TABLE
  /\ workbook = <<AUDIT_SHEET, "Joined Data Details", "Analysis Report", "Python Code">>

-----------------------------------------------------------------------------
(* Properties of generateAnnotatedImage, under SpecAnnotate *)

\* 0 <= ymin < ymax <= 1000 and 0 <= xmin < xmax <= 1000
BoxInRange(box) ==
  /\ Len(box) = 4
  /\ 0 <= box[1] /\ box[1] < box[3] /\ box[3] <= 1000
  /\ 0 <= box[2] /\ box[2] < box[4] /\ box[4] <= 1000

\* the canvas calls issued by the iteration of field k
OpsOf(k) == {i \in 1..Len(drawOps) : drawOps[i].field = k}

HasBox(data, field) == field.key \in DOMAIN data /\ data[field.key].hasBox

\* the key is missing, or its value is null or absent
NoExtractedValue(data, field) ==
  field.key \notin DOMAIN data \/ ~data[field.key].hasValue

\* C5: a field whose box_2d is present but violates 0 <= ymin < ymax <= 1000 or
\* 0 <= xmin < xmax <= 1000 is treated as having no box: nothing is drawn for
\* it, and no error is raised.
C5_InvalidBoxNotDrawn ==
  \A k \in 1..Len(annFields) :
    (k < annIdx /\ HasBox(annData, annFields[k])
       /\ ~BoxInRange(annData[annFields[k].key].box_2d))
    => OpsOf(k) = {}

\* C6: for every field without an extracted value, with or without a box_2d,
\* the export row's cell for the field is empty and generateAnnotatedImage
\* draws nothing for the field.
C6_NoValueNothingDrawn ==
  \A k \in 1..Len(annFields) :
    NoExtractedValue(annData, annFields[k]) =>
      /\ DataRow([fileName |-> a_pdf, status |-> success, data |-> annData],
                 annFields)[annFields[k].name] = <<>>
      /\ k < annIdx => OpsOf(k) = {}

\* what the renderer does: the iteration of a field draws exactly when the
\* field's key holds a box_2d, whatever the box and the value are
DrawsExactlyTheBoxes ==
  \A k \in 1..Len(annFields) :
    /\ k < annIdx => (OpsOf(k) # {} <=> HasBox(annData, annFields[k]))
    /\ k >= annIdx => OpsOf(k) = {}

-----------------------------------------------------------------------------
(* Properties of parseMarkdownTable, under SpecParse *)

\* the lines of the argument, each trimmed
TrimmedLines ==
  LET lines == Split(markdown, "\n")
  IN [k \in 1..Len(lines) |-> Trim(lines[k])]

BlankLines(tl) == {j \in 1..Len(tl) : tl[j] = <<>>}

\* the lines that, trimmed, start and end with a pipe
PipeDelimited(tl) ==
  {k \in 1..Len(tl) : Len(tl[k]) > 0 /\ tl[k][1] = "|" /\ tl[k][Len(tl[k])] = "|"}

\* the pipe-delimited lines the loop turns into rows when it reaches them
RowLines(tl) == {k \in 1..Len(tl) : IsPipeLine(tl[k]) /\ ~IsSeparatorLine(tl[k])}

\* the lines whose iteration pushed a row
Contributing == {parsed.from[r] : r \in 1..Len(parsed.from)}

\* the elements of a set of numbers, ascending
SortedSeq(S) ==
  [r \in 1..Cardinality(S) |-> CHOOSE p \in S : Cardinality({q \in S : q < p}) = r - 1]

\* C7: the scan stops at the first blank line that follows the first collected
\* table row: no pipe-delimited line after that blank line contributes a row;
\* blank lines before the first table row do not stop the scan.
C7_StopsAtFirstBlankAfterFirstRow ==
  parsed.done =>
    LET tl == TrimmedLines
        rows == RowLines(tl)
        blank == BlankLines(tl)
        contrib == Contributing
    IN /\ Len(parsed.from) = Len(parsed.data)
       /\ \A r, s \in 1..Len(parsed.from) : r < s => parsed.from[r] < parsed.from[s]
       /\ contrib \subseteq rows
       /\ rows # {} => (parsed.from # <<>> /\ parsed.from[1] = Min(rows))
       /\ \A k \in contrib : \A j \in blank : ~(parsed.from[1] < j /\ j < k)

\* a blank line precedes the first row, and a row line after the first blank
\* line that follows it has contributed nothing
C7_Witness ==
  /\ parsed.done
  /\ parsed.from # <<>>
  /\ LET tl == TrimmedLines
         blank == BlankLines(tl)
     IN \E j0, j \in blank :
          /\ j0 < parsed.from[1]
          /\ parsed.from[1] < j
          /\ \E k \in RowLines(tl) : j < k /\ k \notin Contributing

\* C8: the returned rows come from one contiguous block of pipe-delimited
\* lines: when a line that does not start and end with a pipe lies between two
\* pipe-delimited lines, the rows of at most one side of it are returned.
C8_RowsFromOneContiguousBlock ==
  parsed.done =>
    LET tl == TrimmedLines
        others == (1..Len(tl)) \ PipeDelimited(tl)
        contrib == Contributing
    IN \A j \in others : ~(\E k1, k2 \in contrib : k1 < j /\ j < k2)

\* C8, amended: the returned rows never straddle a blank line, and a non-blank
\* line that is not pipe-delimited does not end the table: a row line after it
\* is still returned when no blank line lies between it and an earlier
\* returned row.
C8_RowsNeverStraddleBlankLine ==
  parsed.done =>
    LET tl == TrimmedLines
        blank == BlankLines(tl)
        rows == RowLines(tl)
        contrib == Contributing
    IN /\ \A j \in blank : ~(\E k1, k2 \in contrib : k1 < j /\ j < k2)
       /\ \A k1 \in contrib :
            \A k2 \in rows :
              (k1 < k2 /\ \A j \in blank : ~(k1 < j /\ j < k2)) => k2 \in contrib

\* rows on both sides of a line of plain text have been returned
C8_Witness ==
  /\ parsed.done
  /\ LET tl == TrimmedLines
         text == (1..Len(tl)) \ (PipeDelimited(tl) \cup BlankLines(tl))
     IN \E j \in text : \E k1, k2 \in Contributing : k1 < j /\ j < k2

\* a line composed solely of dashes and pipes
SolelyDashesAndPipes(line) == \A i \in 1..Len(line) : line[i] \in {"-", "|"}

\* a line of pipes, whitespace and at least one dash, the dashes making one run
\* once the pipes are taken out: no whitespace between the first and last dash
DashRunBetweenPipes(line) ==
  LET dashes == {i \in 1..Len(line) : line[i] = "-"}
  IN /\ dashes # {}
     /\ \A i \in 1..Len(line) : line[i] \in {"-", "|"} \cup WhiteSpace
     /\ \A i \in 1..Len(line) :
          (Min(dashes) < i /\ i < Max(dashes)) => line[i] \notin WhiteSpace

\* the trimmed substrings between consecutive pipes
PipeCells(line) ==
  LET pos == SortedSeq({i \in 1..Len(line) : line[i] = "|"})
  IN [c \in 1..(Len(pos) - 1) |-> Trim(SubSeq(line, pos[c] + 1, pos[c + 1] - 1))]

\* the table of the pipe-delimited lines that Skipped does not skip, up to the
\* first blank line after the first of them
ExpectedTable(Skipped(_)) ==
  LET tl == TrimmedLines
      kept == {k \in PipeDelimited(tl) : ~Skipped(tl[k])}
      blanks == IF kept = {} THEN {}
                ELSE {j \in BlankLines(tl) : j > Min(kept)}
      stop == IF blanks = {} THEN Len(tl) + 1 ELSE Min(blanks)
      order == SortedSeq({k \in kept : k < stop})
  IN [from |-> order, data |-> [r \in 1..Len(order) |-> PipeCells(tl[order[r]])]]

TableIs(expected) ==
  /\ parsed.from = expected.from
  /\ parsed.data = expected.data
  /\ parsed.isNull <=> (expected.data = <<>>)
  /\ markdown = MD_TABLE =>
       (~parsed.isNull /\ parsed.data = << <<<<"A">>, <<"B">>>>, <<<<"1">>, <<"2">>>> >>)

\* C9: within the detected table every line composed solely of dashes and pipes
\* is skipped and every other pipe-delimited line becomes exactly one row, in
\* input order, of the trimmed substrings between consecutive pipes; the result
\* is null exactly when no row was collected; the worked example gives
\* [['A','B'],['1','2']].
C9_SkipsLinesOfDashesAndPipes ==
  parsed.done => TableIs(ExpectedTable(SolelyDashesAndPipes))

\* C9, amended: the lines skipped are the pipe-delimited lines that, pipes
\* removed and surrounding whitespace trimmed, are a non-empty run of dashes;
\* a line of pipes alone is kept as a row and '| - |' is skipped; the rest of
\* the claim stands.
C9_SkipsDashRuns ==
  parsed.done => TableIs(ExpectedTable(DashRunBetweenPipes))

\* a line of pipes alone has become a row and a spaced dash line was skipped
\* between two rows
C9_Witness ==
  /\ parsed.done
  /\ LET tl == TrimmedLines
         contrib == Contributing
     IN /\ \E k \in contrib : tl[k] = L_PIPES_ONLY
        /\ \E k1, k2 \in contrib :
             \E j \in (k1 + 1)..(k2 - 1) : tl[j] = L_SPACED_DASH /\ j \notin contrib

-----------------------------------------------------------------------------
(* Atomicity and failure handling of exportToZip, under Spec *)

\* the state exportToZip leaves behind when it has touched nothing
NothingExported ==
  /\ ~zipCreated
  /\ usedFilenames = {}
  /\ filenameMap = EmptyRecord
  /\ docsFolder = EmptyRecord
  /\ fileCalls = <<>>
  /\ zipRoot = {}
  /\ workbook = <<>>
  /\ downloads = <<>>

\* every document bundled and the workbook added to the archive
ArchiveComplete ==
  /\ zipCreated
  /\ idx > Len(documents)
  /\ Len(fileCalls) = Len(documents)
  /\ workbook # <<>>
  /\ "Audit_Report.xlsx" \in zipRoot

\* C11: an export is all-or-nothing: the download is triggered at most once per
\* call, and only after every document has been bundled, the workbook has been
\* added to the archive and serialization has succeeded; when a library is
\* unavailable the call returns after the user notice without creating an
\* archive, resolving a filename or adding a file; when serialization fails the
\* failure notice is shown and no download is triggered.
C11_AllOrNothing ==
  /\ Len(downloads) <= 1
  /\ downloads # <<>> =>
       (pc = "done" /\ ArchiveComplete /\ downloads = <<DOWNLOAD_NAME>> /\ alerts = <<>>)
  /\ pc = "returned" => (alerts = <<LIBRARY_NOTICE>> /\ NothingExported)
  /\ pc = "done" =>
       \/ downloads = <<DOWNLOAD_NAME>> /\ alerts = <<>>
       \/ downloads = <<>> /\ alerts = <<FAILURE_NOTICE>>

\* serialization failed after two or more documents and the workbook were added:
\* the failure notice is shown and nothing was downloaded
C11_Witness ==
  /\ pc = "done"
  /\ Len(documents) >= 2
  /\ ArchiveComplete
  /\ alerts = <<FAILURE_NOTICE>>
  /\ downloads = <<>>

-----------------------------------------------------------------------------
(* Properties of reconcileData, under SpecReconcile *)

\* the text the service answered with, or the fallback when it answered none
ReportText == IF recResponse.text = <<>> THEN DEFAULT_REPORT ELSE recResponse.text

TagAt(text, tag, i) == i + Len(tag) - 1 <= Len(text) /\ SubSeq(text, i, i + Len(tag) - 1) = tag

\* the <JSON_RESULT>...</JSON_RESULT> blocks of the report text, as pairs of
\* the positions of an opening tag and of a closing tag after it
Blocks ==
  LET text == ReportText
  IN {b \in (1..Len(text)) \X (1..Len(text)) :
        /\ TagAt(text, OPEN_TAG, b[1])
        /\ TagAt(text, CLOSE_TAG, b[2])
        /\ b[2] >= b[1] + Len(OPEN_TAG)}

\* the content of the first block: from the first opening tag to the first
\* closing tag after it
FirstBlockContent ==
  LET blocks == Blocks
      open == Min({b[1] : b \in blocks})
      close == Min({b[2] : b \in {c \in blocks : c[1] = open}})
  IN SubSeq(ReportText, open + Len(OPEN_TAG), close - 1)

\* the block contents that are JSON texts
ParseableContents == {J_ROWS, J_EMPTY_ARRAY, J_PADDED, J_NULL, J_OBJECT}

\* the code of the executableCode parts joined with the separator
CodeListing ==
  LET executed == SelectSeq(recResponse.parts, LAMBDA part : part.hasCode)
  IN Join([k \in 1..Len(executed) |-> executed[k].code], CODE_SEPARATOR)

\* C12: when the response text has no <JSON_RESULT> block, or the content of
\* its block is not parseable JSON, reconcileData still returns a result with
\* the report text, the concatenated executed-code listing and joinedData
\* absent; a parse failure never reaches the caller, whereas a failure of the
\* service request itself is rethrown.
C12_ParseFailureSwallowed ==
  /\ recRequest = "resolved" =>
       /\ recPc = "returned"
       /\ recThrown = NothingThrown
       /\ recResult.report = ReportText
       /\ recResult.code = CodeListing
       /\ (Blocks = {} \/ FirstBlockContent \notin ParseableContents) =>
            ~recResult.joinedData.present
  /\ recRequest = "rejected" =>
       (recPc = "thrown" /\ recThrown = SERVICE_ERROR /\ recResult = NoResult)
  /\ recThrown \in {NothingThrown, API_KEY_MISSING, SERVICE_ERROR}

\* the first of two blocks holds '[1,]': JSON.parse has thrown, the failure was
\* logged, and the result came back with two code blocks joined and no joined
\* data
C12_Witness ==
  /\ recPc = "returned"
  /\ Blocks # {}
  /\ Cardinality({b[1] : b \in Blocks}) = 2
  /\ FirstBlockContent = J_TRAILING_COMMA
  /\ recLog = <<PARSE_FAILURE>>
  /\ recResult.code = CODE_A \o CODE_SEPARATOR \o CODE_B
  /\ ~recResult.joinedData.present

\* a block holding a JSON text gives joinedData its parsed value
ParseableBlockGivesJoinedData ==
  (recPc = "returned" /\ Blocks # {} /\ FirstBlockContent \in ParseableContents) =>
    /\ recResult.joinedData.present
    /\ recLog = <<>>
    /\ FirstBlockContent = J_PADDED =>
         recResult.joinedData.value =
           [t |-> "array", v |-> <<[t |-> "number", v |-> 1], [t |-> "number", v |-> 2]>>]

====
